---- MODULE Spec2Model ----
(***************************************************************************)
(* Model of ms-drive: the Drive change-feed tracker (DriveWatcher), the    *)
(* folder reconciler (create_drive_folder), the file sync engine          *)
(* (sync_drive_files) and the analysis consumer (AnalysisSaveConsumer).    *)
(*                                                                         *)
(* Each component has its own specification over the shared variables:     *)
(*   SpecWatcher      check_for_new_files calls run one after another      *)
(*   SpecWatcherConc  a push-triggered task and a poll request interleave  *)
(*   SpecFolder       create_drive_folder requests against Drive and DB    *)
(*   SpecSync         sync_drive_files batches against the drive_files DB  *)
(*   SpecConsumer     the Kafka consumer loop of AnalysisSaveConsumer      *)
(*   SpecChanges      get_incremental_changes calls, page by page          *)
(*   SpecNotify       drive_notifications and its background tasks         *)
(*   SpecFolderRemote create_drive_folder on a Drive that holds folders    *)
(*   SpecShutdown     the consumer task cancelled by shutdown_event        *)
(*   SpecSyncOverlap  sync_drive_files calls of several database sessions  *)
(*   SpecFolderOverlap create_drive_folder requests served at the same time *)
(***************************************************************************)
EXTENDS Integers, Sequences, FiniteSets, TLC

\* ------------------------------------------------------------------------
\* Bounds of the model
\* ------------------------------------------------------------------------
NumFiles == 3
MaxCalls == 3
MaxResets == 1
NumSyncFiles == 2
NumNames == 2
NumModTimes == 2
MaxBatch == 2
MaxSyncCalls == 2
\* Database sessions that run sync_drive_files at the same time, and the
\* number of calls they start.
NumSessions == 2
MaxOverlapCalls == 2
NumFolderNames == 2
MaxFolders == 2
MaxFolderCalls == 3
\* Folders the Drive holds before the first request.
MaxRemote == 1
\* POST /drive/folders requests that can be in service at the same time.
NumRequests == 2
MaxMsgs == 3
MaxRestarts == 1
MaxChanges == 4
PageSize == 2
MaxChangeCalls == 3
MaxNotifs == 2

FileIds == 1..NumFiles
SyncFileIds == 1..NumSyncFiles
Names == 1..NumNames
ModTimes == 1..NumModTimes

\* ------------------------------------------------------------------------
\* Generic helpers
\* ------------------------------------------------------------------------
Range(s) == {s[i] : i \in DOMAIN s}

NoDup(s) == \A i, j \in DOMAIN s : i # j => s[i] # s[j]

SeqsUpTo(S, n) == UNION {[1..k -> S] : k \in 0..n}

\* What files().list returns for the watched folder: Drive file ids are
\* unique inside one listing (driver_watcher.py:94-100).
Listings == {s \in SeqsUpTo(FileIds, NumFiles) : NoDup(s)}

\* ------------------------------------------------------------------------
\* State
\* ------------------------------------------------------------------------
VARIABLES
    \* DriveWatcher
    processed_files,   \* DriveWatcher.processed_files, the emitted-id cache
    batches,           \* batches returned by check_for_new_files since the last reset
    lastCall,          \* outcome of the latest sequential check_for_new_files call
    ncalls,            \* number of calls made (bounded)
    nresets,           \* number of resets made (bounded)
    \* interleaved invocations of check_for_new_files
    pc,                \* per invocation: "idle", "loop", "add"
    todo,              \* per invocation: files of the listing still to visit
    new_files,         \* per invocation: the local list new_files
    startCycle,        \* per invocation: value of nresets when it started
    \* file sync engine
    drive_files,       \* table drive_files: sequence of rows, row i has surrogate id i
    clock,             \* number of sync calls made so far; "now" is derived from it
    nsync,             \* number of sync_drive_files calls (bounded)
    lastSync,          \* the sync_drive_files call whose result is being looked at
    \* folder reconciler
    drive_folders,     \* table drive_folders: sequence of rows, row i has id i
    remote_folders,    \* folders of the Drive: sequence, entry i has remote id i
    remote_creates,    \* per folder name: folders the handler created in the Drive
    folder_docs,       \* ids of the local folders that have drive_files rows attached
    nfolder,           \* number of create_drive_folder requests (bounded)
    lastFolder,        \* the latest create_drive_folder request and its response
    \* analysis consumer
    kafka_log,         \* the messages of topic analysis-events, offsets from 1
    position,          \* offset of the next message the consumer fetches
    committed,         \* offset committed for group analysis-saver-group
    delivered,         \* per offset: times the message was handed to the loop
    msg_writes,        \* per offset: INSERTs sent to the database for it
    msg_outcome,       \* per offset: how the latest processing of the message ended
    analysis_results,  \* table analysis_results with its dependent rows
    nrestarts,         \* number of restarts of the consumer (bounded)
    restartedAt,       \* position the consumer had reached at its last restart
    lastIngest,        \* the latest process_analysis_event call
    emitted_before,    \* ids returned as new before the latest reset
    reported,          \* ids sent to a caller in a response of GET /files/new
    \* push notifications
    notif_tasks,       \* background tasks added by drive_notifications, not yet run
    tasks_done,        \* number of those tasks that have run
    nnotif,            \* number of notifications received (bounded)
    lastNotify,        \* the latest notification and the response to it
    \* incremental changes
    nchanges,          \* length of the Drive's change log; change i is its i-th entry
    saved_token,       \* the page token the caller holds, 0 if none
    chg_pc,            \* position of get_incremental_changes: "idle" or "listing"
    page_token,        \* local page_token of the running call
    new_token,         \* local new_token of the running call
    changes,           \* local list `changes` of the running call
    change_batches,    \* the lists of changes returned so far, in call order
    nchangecalls,      \* number of get_incremental_changes calls (bounded)
    lastChanges,       \* the latest finished call: what the caller received
    \* shutdown of the consumer task
    task_pc,           \* where the task of start() is suspended, or "stopped"
    cancelled_in,      \* the await at which task.cancel() reached the task
    \* overlapping sync_drive_files calls
    sessions,          \* per database session: the running call and its pending work
    noverlap,          \* number of calls started by the sessions (bounded)
    \* overlapping create_drive_folder requests
    inflight           \* per request slot: the request in service and what it read

wvars == <<processed_files, batches, lastCall, ncalls, nresets>>
cvars == <<pc, todo, new_files, startCycle>>
svars == <<drive_files, clock, nsync, lastSync>>
fvars == <<drive_folders, remote_folders, remote_creates, folder_docs, nfolder, lastFolder>>
gvars == <<nchanges, saved_token, chg_pc, page_token, new_token, changes,
           change_batches, nchangecalls, lastChanges>>
nvars == <<notif_tasks, tasks_done, nnotif, lastNotify>>
hvars == <<task_pc, cancelled_in>>
ovars == <<sessions, noverlap>>
pvars == <<inflight>>
kvars == <<kafka_log, position, committed, delivered, msg_writes, msg_outcome,
           analysis_results,
           nrestarts, restartedAt, lastIngest>>

\* What each component leaves alone.
xR == <<svars, fvars, kvars, gvars, nvars, hvars, ovars, pvars>>
xW == <<xR, emitted_before, reported>>
xS == <<ovars, pvars, nvars, wvars, cvars, fvars, kvars, gvars, hvars, emitted_before, reported>>
xF == <<ovars, pvars, nvars, wvars, cvars, svars, kvars, gvars, hvars, emitted_before, reported>>
xK == <<ovars, pvars, nvars, wvars, cvars, fvars, gvars, hvars, emitted_before, reported>>
xH == <<ovars, pvars, nvars, wvars, cvars, fvars, gvars, emitted_before, reported>>
xG == <<ovars, pvars, nvars, wvars, cvars, svars, fvars, kvars, hvars, emitted_before, reported>>
xN == <<cvars, svars, fvars, kvars, gvars, hvars, ovars, pvars, reported>>
xO == <<pvars, nvars, wvars, cvars, fvars, kvars, gvars, hvars, emitted_before, reported>>
xP == <<ovars, nvars, wvars, cvars, svars, kvars, gvars, hvars, emitted_before, reported>>

vars == <<processed_files, batches, lastCall, ncalls, nresets,
          pc, todo, new_files, startCycle,
          drive_files, clock, nsync, lastSync,
          drive_folders, remote_folders, remote_creates, folder_docs, nfolder,
          lastFolder,
          kafka_log, position, committed, delivered, msg_writes, msg_outcome,
          analysis_results,
          nrestarts, restartedAt, lastIngest,
          nchanges, saved_token, chg_pc, page_token, new_token, changes,
          change_batches, nchangecalls, lastChanges, emitted_before, reported,
          notif_tasks, tasks_done, nnotif, lastNotify, task_pc, cancelled_in, sessions, noverlap,
          inflight>>

\* The two triggers that route to check_for_new_files: the background task
\* added by drive_notifications and the GET /files/new handler.
Invocations == {"push", "poll"}

\* ------------------------------------------------------------------------
\* DriveWatcher.check_for_new_files
\* ------------------------------------------------------------------------

\* The membership test of line 117 dropped: every listed file is new.
IsNewMut(file_id, processed) == TRUE

\* driver_watcher.py:117
IsNew(file_id, processed) == file_id \notin processed

\* The loop of driver_watcher.py:114-121 over the listing `files`.
RECURSIVE ScanFiles(_, _, _)
ScanFiles(files, processed, acc) ==
    IF files = <<>>
    THEN [new_files |-> acc, processed_files |-> processed]
    ELSE LET file_id == Head(files) IN
         IF IsNew(file_id, processed)
         THEN ScanFiles(Tail(files), processed \cup {file_id}, Append(acc, file_id))
         ELSE ScanFiles(Tail(files), processed, acc)

WInit ==
    /\ processed_files = {}
    /\ batches = <<>>
    /\ lastCall = [via |-> "none", status |-> "none", listing |-> <<>>,
                   new_files |-> <<>>, before |-> {},
                   prevStatus |-> "none", prevBefore |-> {}]
    /\ ncalls = 0
    /\ nresets = 0
    /\ emitted_before = {}
    /\ reported = {}

CInit ==
    /\ pc = [t \in Invocations |-> "idle"]
    /\ todo = [t \in Invocations |-> <<>>]
    /\ new_files = [t \in Invocations |-> <<>>]
    /\ startCycle = [t \in Invocations |-> 0]

NoSync == [status |-> "none", obs |-> <<>>, fails |-> {}, commitOk |-> TRUE,
           before |-> <<>>,
           returned |-> <<>>, events |-> <<>>, repeat |-> FALSE,
           prevOk |-> FALSE, prevFails |-> {}]

\* An empty drive_files table, as Base.metadata.create_all leaves it.
SInit ==
    /\ drive_files = <<>>
    /\ clock = 0
    /\ nsync = 0
    /\ lastSync = NoSync

DbSessions == 1..NumSessions

\* A session that runs no call: nothing loaded, nothing pending.
IdleSession == [pc |-> "idle", k |-> 0, now |-> 0, loaded0 |-> <<>>, loaded |-> <<>>,
                new_files |-> <<>>, outcome |-> "none"]

\* Every session as get_db hands it out: empty.
OInit ==
    /\ sessions = [s \in DbSessions |-> IdleSession]
    /\ noverlap = 0

FolderNames == 1..NumFolderNames

RequestSlots == 1..NumRequests

\* A slot that serves no request.
IdleRequest ==
    [pc |-> "idle",
     folder |-> [name |-> 0, parent_folder_id |-> 0, folder_type |-> "none", team_id |-> 0],
     db0 |-> <<>>, remote0 |-> <<>>, status |-> 0, overlapped |-> FALSE]

PInit == inflight = [r \in RequestSlots |-> IdleRequest]

\* folder_type values of a request body; "none" is an absent type.
FolderTypes == {"team", "avances", "sesiones", "equipo", "tema", "project", "none"}

\* The JSON body of POST /drive/folders; 0 stands for an absent value.
FolderRequests ==
    [name : FolderNames, parent_folder_id : 0..MaxFolders,
     folder_type : FolderTypes, team_id : 0..1]

NoFolderCall ==
    [status |-> 0, detail |-> "none", folder_id |-> 0, google_id |-> 0,
     creates |-> 0, lookups |-> 0,
     req |-> [name |-> 0, parent_folder_id |-> 0,
              folder_type |-> "none", team_id |-> 0],
     env |-> [lookupOk |-> TRUE, createOk |-> TRUE, commitOk |-> TRUE, first |-> 0],
     db_before |-> <<>>, remote_before |-> <<>>,
     same |-> FALSE, prevStatus |-> 0, prevFolderId |-> 0, prevGoogleId |-> 0,
     prevCreates |-> 0]

FInit ==
    /\ drive_folders = <<>>
    /\ remote_folders = <<>>
    /\ remote_creates = [n \in FolderNames |-> 0]
    /\ folder_docs = {}
    /\ nfolder = 0
    /\ lastFolder = NoFolderCall

NoIngest == [offset |-> 0, outcome |-> "none", writes |-> 0, before |-> <<>>,
             commitOk |-> TRUE]

\* auto_offset_reset='earliest' (analysis_save_consumer.py:27): a group
\* without a committed offset starts at the first message.
KInit ==
    /\ kafka_log = <<>>
    /\ position = 1
    /\ committed = 1
    /\ delivered = <<>>
    /\ msg_writes = <<>>
    /\ msg_outcome = <<>>
    /\ analysis_results = <<>>
    /\ nrestarts = 0
    /\ restartedAt = 0
    /\ lastIngest = NoIngest
    /\ task_pc = "fetch"
    /\ cancelled_in = "none"

NoChangesCall ==
    [response |-> [status |-> 0, changes |-> <<>>, new_token |-> 0],
     failed |-> FALSE, read |-> 0, token_before |-> 0, batches_before |-> 0,
     log |-> 0]

GInit ==
    /\ nchanges = 0
    /\ saved_token = 0
    /\ chg_pc = "idle"
    /\ page_token = 0
    /\ new_token = 0
    /\ changes = <<>>
    /\ change_batches = <<>>
    /\ nchangecalls = 0
    /\ lastChanges = NoChangesCall

NoNotification == [status |-> 0, resource_state |-> "none", channel |-> FALSE,
                   listing_ok |-> TRUE, ncalls |-> 0]

NInit ==
    /\ notif_tasks = <<>>
    /\ tasks_done = 0
    /\ nnotif = 0
    /\ lastNotify = NoNotification

Init == WInit /\ CInit /\ SInit /\ FInit /\ KInit /\ GInit /\ NInit /\ OInit /\ PInit


\* A whole call, list_files succeeding with `listing` (lines 108-125).
\* The list goes to a caller when the method was called by GET /files/new,
\* which returns it in the response (drive.py:78-79).
\* BackgroundTasks drops the return value of the task that
\* drive_notifications added (drive.py:154).
ReachesCaller(via) == via = "poll"

check_for_new_files(via, listing) ==
    /\ ncalls < MaxCalls
    /\ LET r == ScanFiles(listing, processed_files, <<>>) IN
       /\ processed_files' = r.processed_files
       /\ batches' = Append(batches, r.new_files)
       /\ reported' = IF ReachesCaller(via) THEN reported \cup Range(r.new_files)
                      ELSE reported
       /\ lastCall' = [via |-> via, status |-> "ok", listing |-> listing,
                       new_files |-> r.new_files, before |-> processed_files,
                    prevStatus |-> lastCall.status, prevBefore |-> lastCall.before]
    /\ ncalls' = ncalls + 1
    /\ UNCHANGED <<nresets, cvars, xR, emitted_before>>

\* The cache dropped when the listing fails.
AfterListingErrorMut(processed) == {}

\* Line 112: list_files raises before the loop of lines 115-120 is entered,
\* so no id has been added to processed_files.
AfterListingError(processed) == processed

\* A whole call in which list_files raises HttpError (lines 104-106, 112):
\* the error propagates before the loop is entered.
check_for_new_files_error(via) ==
    /\ ncalls < MaxCalls
    /\ processed_files' = AfterListingError(processed_files)
    /\ lastCall' = [via |-> via, status |-> "error", listing |-> <<>>,
                    new_files |-> <<>>, before |-> processed_files,
                    prevStatus |-> lastCall.status, prevBefore |-> lastCall.before]
    /\ ncalls' = ncalls + 1
    /\ UNCHANGED <<batches, nresets, cvars, xW>>

\* The reset leaves the set as it is.
ResetCacheMut(processed) == processed

\* Line 152: self.processed_files.clear()
ResetCache(processed) == {}

\* DriveWatcher.reset_processed_files (lines 150-153); a new reset cycle starts.
reset_processed_files ==
    /\ nresets < MaxResets
    /\ processed_files' = ResetCache(processed_files)
    /\ emitted_before' = emitted_before \cup UNION {Range(batches[i]) : i \in DOMAIN batches}
    /\ batches' = <<>>
    /\ nresets' = nresets + 1
    /\ ncalls' = 0
    /\ UNCHANGED <<lastCall, cvars, xR, reported>>

CheckNewFiles == \E via \in Invocations, listing \in Listings :
                     check_for_new_files(via, listing)

CheckNewFilesError == \E via \in Invocations : check_for_new_files_error(via)

WNext == CheckNewFiles \/ CheckNewFilesError \/ reset_processed_files

SpecWatcher == Init /\ [][WNext]_vars

\* C1: calls of check_for_new_files run one after another with no reset in
\* between return pairwise disjoint batches: every file id is in the batch
\* of at most one call of the reset cycle, whatever the listings were.
C1_IdempotentObservation ==
    \A i, j \in DOMAIN batches :
        i # j => Range(batches[i]) \cap Range(batches[j]) = {}

\* Two calls of one cycle whose listings overlap: the second listing holds an
\* id that the first call returned.
C1_Witness ==
    /\ Len(batches) >= 2
    /\ lastCall.status = "ok"
    /\ Range(lastCall.listing) \cap Range(batches[1]) # {}

\* ------------------------------------------------------------------------
\* Interleaved invocations of check_for_new_files.  The push endpoint hands
\* the (synchronous) method to BackgroundTasks, which runs it on a worker
\* thread (drive.py:154); GET /files/new calls it on the event-loop thread
\* (drive.py:78).  No lock guards processed_files, so the threads interleave
\* between the membership test of line 117 and the add of line 120.
\* ------------------------------------------------------------------------

\* Lines 112-114: list_files returned `listing`, the loop is about to start.
StartCheck(t) ==
    /\ pc[t] = "idle"
    /\ ncalls < MaxCalls
    /\ \E listing \in Listings :
          todo' = [todo EXCEPT ![t] = listing]
    /\ new_files' = [new_files EXCEPT ![t] = <<>>]
    /\ startCycle' = [startCycle EXCEPT ![t] = nresets]
    /\ pc' = [pc EXCEPT ![t] = "loop"]
    /\ ncalls' = ncalls + 1
    /\ UNCHANGED <<processed_files, batches, lastCall, nresets, xW>>

\* Lines 115-117: next file of the listing, membership test.
VisitFile(t) ==
    /\ pc[t] = "loop"
    /\ todo[t] # <<>>
    /\ IF IsNew(Head(todo[t]), processed_files)
       THEN pc' = [pc EXCEPT ![t] = "add"] /\ UNCHANGED todo
       ELSE todo' = [todo EXCEPT ![t] = Tail(todo[t])] /\ UNCHANGED pc
    /\ UNCHANGED <<wvars, new_files, startCycle, xW>>

\* Lines 118-120: append to new_files and add to processed_files.
AddFile(t) ==
    /\ pc[t] = "add"
    /\ new_files' = [new_files EXCEPT ![t] = Append(new_files[t], Head(todo[t]))]
    /\ processed_files' = processed_files \cup {Head(todo[t])}
    /\ todo' = [todo EXCEPT ![t] = Tail(todo[t])]
    /\ pc' = [pc EXCEPT ![t] = "loop"]
    /\ UNCHANGED <<batches, lastCall, ncalls, nresets, startCycle, xW>>

\* Line 125: the loop is over, new_files is returned.
ReturnNewFiles(t) ==
    /\ pc[t] = "loop"
    /\ todo[t] = <<>>
    /\ pc' = [pc EXCEPT ![t] = "idle"]
    /\ reported' = IF ReachesCaller(t) THEN reported \cup Range(new_files[t])
                   ELSE reported
    /\ UNCHANGED <<wvars, todo, new_files, startCycle, xR, emitted_before>>

\* reset_processed_files run as a background task (drive.py:118), at any
\* point of the other invocations.
ResetConc ==
    /\ nresets < MaxResets
    /\ processed_files' = ResetCache(processed_files)
    /\ nresets' = nresets + 1
    /\ UNCHANGED <<batches, lastCall, ncalls, cvars, xW>>

StartCheckAny == \E t \in Invocations : StartCheck(t)
VisitFileAny == \E t \in Invocations : VisitFile(t)
AddFileAny == \E t \in Invocations : AddFile(t)
ReturnNewFilesAny == \E t \in Invocations : ReturnNewFiles(t)

CNext == StartCheckAny \/ VisitFileAny \/ AddFileAny \/ ReturnNewFilesAny \/ ResetConc

SpecWatcherConc == Init /\ [][CNext]_vars

\* C2: a push-triggered invocation and a poll invocation that work on the
\* cache in the same reset cycle never both put the same file id in their
\* new_files list.
C2_NoDoubleEmission ==
    (startCycle["push"] = nresets /\ startCycle["poll"] = nresets)
        => Range(new_files["push"]) \cap Range(new_files["poll"]) = {}

\* ------------------------------------------------------------------------
\* File sync engine: sync_drive_files (drive_file_repository.py)
\* ------------------------------------------------------------------------

\* The modifiedTime attribute of an observation: absent or empty, a string
\* dateutil cannot parse, or an ISO time with or without a zone designator.
ObsTimes ==
    {[kind |-> "missing", t |-> 0, tz |-> FALSE],
     [kind |-> "garbage", t |-> 0, tz |-> FALSE]}
    \cup {[kind |-> "iso", t |-> t, tz |-> z] : t \in ModTimes, z \in BOOLEAN}

\* `name` stands for the three text fields name, mimeType and webViewLink,
\* which the code always copies together.
Observations == [id : SyncFileIds, name : Names, modifiedTime : ObsTimes]

ObsLists == SeqsUpTo(Observations, MaxBatch)

\* datetime.utcnow() during the call number `c`: later than every observed
\* modification time, and naive.
Now(c) == NumModTimes + c

\* Python datetime inequality: equal instants compare unequal when one
\* value is naive and the other aware.
DtNe(a, b) == a.aware # b.aware \/ a.t # b.t

\* Column(DateTime) without timezone (db_model.py:46): what is read back
\* from the table is naive.
ToColumn(dt) == [t |-> dt.t, aware |-> FALSE]

\* The fallback of lines 60-62 replaced by a fixed date: a modifiedTime
\* that is empty or does not parse gives the epoch.
ModifiedTimeOfMut(mt, now) ==
    IF mt.kind = "iso"
    THEN [t |-> mt.t, aware |-> mt.tz]
    ELSE [t |-> 0, aware |-> FALSE]

\* Lines 58-63: parse_date of a non-empty modifiedTime; utcnow() when it is
\* empty (line 60) or when parse_date raises ValueError (line 62).
ModifiedTimeOf(mt, now) ==
    IF mt.kind = "iso"
    THEN [t |-> mt.t, aware |-> mt.tz]
    ELSE [t |-> now, aware |-> FALSE]

\* Line 66: db.query(DriveFileModel).filter_by(file_id=...).first().  The
\* session is created with autoflush=False (database.py:52-56), so the
\* query sees the table rows (through the identity map, with the attribute
\* values already assigned in this session) but no pending new object.
FindRow(mem, file_id) ==
    IF \E i \in DOMAIN mem : mem[i].file_id = file_id
    THEN CHOOSE i \in DOMAIN mem :
             /\ mem[i].file_id = file_id
             /\ \A j \in DOMAIN mem : mem[j].file_id = file_id => i <= j
    ELSE 0

\* The new row without its detection time (detected_at is nullable).
NewRowMut(drive_file, modified_time, now) ==
    [file_id |-> drive_file.id, name |-> drive_file.name,
     modified_time |-> modified_time, detected_at |-> 0, processed |-> FALSE]

\* Lines 70-77: the new DriveFileModel; processed takes the column default.
NewRow(drive_file, modified_time, now) ==
    [file_id |-> drive_file.id, name |-> drive_file.name,
     modified_time |-> modified_time, detected_at |-> now, processed |-> FALSE]

\* The except clause of lines 92-94 replaced by one that leaves the loop.
AfterFailureMut(obs, k) == Len(obs) + 1

\* Lines 92-94: the failure is logged and the loop continues with the next file.
AfterFailure(obs, k) == k + 1

\* Line 83 replaced by a test that is always true.
NeedsUpdateMut(existing, modified_time) == TRUE

\* Line 83: update only when the stored and the observed time differ.
NeedsUpdate(existing, modified_time) == DtNe(existing.modified_time, modified_time)

\* The loop of lines 47-94.  `fails` holds the positions whose processing
\* raises before anything is staged (the statements of lines 50-66);
\* acc.mem is the table as the session sees it, acc.new_files the pending
\* new objects, acc.dirty the positions of the rows staged for update.
RECURSIVE StageFiles(_, _, _, _, _)
StageFiles(obs, fails, k, now, acc) ==
    IF k > Len(obs) THEN acc
    ELSE IF k \in fails THEN StageFiles(obs, fails, AfterFailure(obs, k), now, acc)
    ELSE LET drive_file == obs[k]
             modified_time == ModifiedTimeOf(drive_file.modifiedTime, now)
             existing == FindRow(acc.mem, drive_file.id)
         IN  IF existing = 0
             THEN StageFiles(obs, fails, k + 1, now,
                      [acc EXCEPT !.new_files =
                           Append(@, NewRow(drive_file, modified_time, now))])
             ELSE IF NeedsUpdate(acc.mem[existing], modified_time)
             THEN StageFiles(obs, fails, k + 1, now,
                      [acc EXCEPT !.mem[existing].name = drive_file.name,
                                  !.mem[existing].modified_time = modified_time,
                                  !.dirty = @ \cup {existing}])
             ELSE StageFiles(obs, fails, k + 1, now, acc)

\* Rows as the table holds them after the flush.
StoreRows(rows) == [i \in DOMAIN rows |-> [rows[i] EXCEPT !.modified_time = ToColumn(@)]]

\* The table without the unique constraint on file_id.
UniqueViolationMut(rows) == FALSE

\* file_id is declared unique (db_model.py:43).
UniqueViolation(rows) ==
    \E i, j \in DOMAIN rows : i # j /\ rows[i].file_id = rows[j].file_id

\* The event lists the updated rows as well.
EventFilesMut(acc) == acc.new_files \o [i \in 1..Cardinality(acc.dirty) |->
                          acc.mem[CHOOSE d \in acc.dirty :
                              Cardinality({e \in acc.dirty : e < d}) = i - 1]]

\* Lines 105-119: the event is built from new_files.
EventFiles(acc) == acc.new_files

\* No event is sent when the call inserted nothing.
EventsOfMut(acc) ==
    IF acc.new_files = <<>> THEN <<>>
    ELSE << [file_ids |-> [i \in DOMAIN acc.new_files |-> acc.new_files[i].file_id]] >>

\* Lines 105-122: one event, handed to kafka_producer.send_event.
EventsOf(acc) ==
    << [file_ids |-> [i \in DOMAIN EventFiles(acc) |-> EventFiles(acc)[i].file_id]] >>

\* The rollback of lines 102 and 131 missing: the updates staged on the
\* rows of the table are kept.
AfterFailedCommitMut(db, acc) == StoreRows(acc.mem)

\* Lines 100-103 and 129-132: db.rollback(), the table is as before the call.
AfterFailedCommit(db, acc) == db

\* The whole of sync_drive_files (lines 29-132).  commitOk tells whether
\* the database accepts the commit of line 98; a unique violation among
\* the pending rows makes it fail in any case.  `events` are the events
\* handed to kafka_producer.send_event (line 122); an error of send_event
\* is logged and changes nothing (lines 124-125).
sync_drive_files(db, obs, fails, commitOk, now) ==
    LET acc == StageFiles(obs, fails, 1, now,
                          [mem |-> db, new_files |-> <<>>, dirty |-> {}])
        rows == StoreRows(acc.mem \o acc.new_files)
    IN  IF commitOk /\ ~UniqueViolation(rows)
        THEN [status |-> "ok", db |-> rows,
              returned |-> StoreRows(acc.new_files),
              events |-> EventsOf(acc)]
        ELSE [status |-> "error", db |-> AfterFailedCommit(db, acc),
              returned |-> <<>>, events |-> <<>>]

SyncCall(obs, fails, commitOk, repeat) ==
    /\ fails \subseteq DOMAIN obs
    /\ LET r == sync_drive_files(drive_files, obs, fails, commitOk, Now(clock + 1)) IN
       /\ drive_files' = r.db
       /\ lastSync' = [status |-> r.status, obs |-> obs, fails |-> fails,
                       commitOk |-> commitOk,
                       before |-> drive_files, returned |-> r.returned,
                       events |-> r.events, repeat |-> repeat,
                       prevOk |-> lastSync.status = "ok",
                       prevFails |-> lastSync.fails]
    /\ clock' = clock + 1

\* A sync_drive_files call on any list of observations.
SyncFiles ==
    /\ lastSync.status = "none"
    /\ nsync < MaxSyncCalls
    /\ nsync' = nsync + 1
    /\ \E obs \in ObsLists, fails \in SUBSET (1..MaxBatch), commitOk \in BOOLEAN :
           SyncCall(obs, fails, commitOk, FALSE)
    /\ UNCHANGED xS

\* sync_drive_files applied once more to the list of the previous call.
SyncAgain ==
    /\ lastSync.status # "none"
    /\ nsync < MaxSyncCalls
    /\ nsync' = nsync + 1
    /\ \E fails \in SUBSET (1..MaxBatch), commitOk \in BOOLEAN :
           SyncCall(lastSync.obs, fails, commitOk, TRUE)
    /\ UNCHANGED xS

\* The caller has consumed the result of the call.
SyncReturn ==
    /\ lastSync.status # "none"
    /\ lastSync' = NoSync
    /\ UNCHANGED <<drive_files, clock, nsync, xS>>

SNext == SyncFiles \/ SyncAgain \/ SyncReturn

SpecSync == Init /\ [][SNext]_vars

\* ------------------------------------------------------------------------
\* sync_drive_files in several database sessions at once
\* ------------------------------------------------------------------------
\* Each request has its own Session (get_db), and the database serves the
\* statements of the sessions in any order.  The coroutine has no await
\* before its commit, so the calls of one event loop do not interleave;
\* the sessions here are those of several worker processes.

\* The table as session s sees it: the committed rows, and for the rows
\* the session has loaded the objects of its identity map, which a later
\* query does not refresh.
SessionView(s) ==
    [i \in DOMAIN drive_files |->
         IF i \in DOMAIN sessions[s].loaded THEN sessions[s].loaded[i]
         ELSE drive_files[i]]

\* sync_drive_files is entered (lines 41-45): nothing staged yet.
BeginSync(s) ==
    /\ sessions[s].pc = "idle"
    /\ noverlap < MaxOverlapCalls
    /\ noverlap' = noverlap + 1
    /\ clock' = clock + 1
    /\ sessions' = [sessions EXCEPT ![s] =
                        [IdleSession EXCEPT !.pc = "staging", !.now = Now(clock + 1)]]
    /\ UNCHANGED <<drive_files, nsync, lastSync, xO>>

\* One turn of the loop of lines 47-94 on the next observation of the
\* list; `fail` tells whether its processing raises before the lookup.
StageOne(s, o, fail) ==
    /\ sessions[s].pc = "staging"
    /\ sessions[s].k < MaxBatch
    /\ LET me == sessions[s]
           view == SessionView(s)
           acc == StageFiles(<<o>>, IF fail THEN {1} ELSE {}, 1, me.now,
                             [mem |-> view, new_files |-> me.new_files, dirty |-> {}])
           i == IF fail THEN 0 ELSE FindRow(view, o.id)
           dom == DOMAIN me.loaded \cup (IF i = 0 THEN {} ELSE {i})
       IN  sessions' = [sessions EXCEPT ![s] =
               [me EXCEPT !.k = @ + 1,
                          !.new_files = acc.new_files,
                          !.loaded0 = [j \in dom |-> IF j \in DOMAIN me.loaded0
                                                     THEN me.loaded0[j] ELSE view[j]],
                          !.loaded = [j \in dom |-> acc.mem[j]]]]
    /\ UNCHANGED <<drive_files, clock, nsync, lastSync, noverlap, xO>>

\* The flush of the commit: an UPDATE by primary key carrying the
\* attributes whose value the session changed, and an INSERT per new object.
FlushedRows(s) ==
    LET me == sessions[s] IN
    [i \in DOMAIN drive_files |->
         IF i \in DOMAIN me.loaded
         THEN [drive_files[i] EXCEPT
                  !.name = IF me.loaded[i].name # me.loaded0[i].name
                           THEN me.loaded[i].name ELSE @,
                  !.modified_time =
                      IF DtNe(me.loaded[i].modified_time, me.loaded0[i].modified_time)
                      THEN me.loaded[i].modified_time ELSE @]
         ELSE drive_files[i]] \o me.new_files

\* Lines 97-103: db.commit().  The database rejects the commit when it
\* fails for any reason (commitOk) or when a row would repeat a file_id;
\* the session then rolls back and the call raises.  The outcome tells
\* a file_id repeated among the new objects of the call ("duplicate") from
\* one that another session inserted after the lookup ("overtaken").
CommitSync(s, commitOk) ==
    /\ sessions[s].pc = "staging"
    /\ LET rows == StoreRows(FlushedRows(s))
           ok == commitOk /\ ~UniqueViolation(rows)
       IN  /\ drive_files' = IF ok THEN rows ELSE drive_files
           /\ sessions' = [sessions EXCEPT ![s] =
                  [IdleSession EXCEPT !.outcome =
                       IF ok THEN "ok"
                       ELSE IF ~commitOk THEN "error"
                       ELSE IF UniqueViolation(sessions[s].new_files) THEN "duplicate"
                       ELSE "overtaken"]]
    /\ UNCHANGED <<clock, nsync, lastSync, noverlap, xO>>

BeginSyncAny == \E s \in DbSessions : BeginSync(s)
StageOneAny == \E s \in DbSessions, o \in Observations, fail \in BOOLEAN : StageOne(s, o, fail)
CommitSyncAny == \E s \in DbSessions, commitOk \in BOOLEAN : CommitSync(s, commitOk)

ONext == BeginSyncAny \/ StageOneAny \/ CommitSyncAny

SpecSyncOverlap == Init /\ [][ONext]_vars

\* Rows of the table that carry the external id file_id.
RowsOf(table, file_id) == {i \in DOMAIN table : table[i].file_id = file_id}

\* Positions of the rows that the latest call inserted.
InsertedByLast == (Len(lastSync.before) + 1)..Len(drive_files)

\* The latest call is a second application of a list whose first
\* application committed and skipped no observation.
SecondApplication ==
    lastSync.repeat /\ lastSync.prevOk /\ lastSync.prevFails = {}

\* C5 as stated: the second application of the same list adds no row and
\* sends no event.
C5_SecondCallSilent ==
    SecondApplication =>
        /\ Len(drive_files) = Len(lastSync.before)
        /\ lastSync.events = <<>>

\* C5 amended: the second application adds no row and returns no file; it
\* still sends one event when its commit succeeds, and that event lists no
\* file.
C5_SecondCallAddsNoRow ==
    SecondApplication =>
        /\ Len(drive_files) = Len(lastSync.before)
        /\ lastSync.returned = <<>>
        /\ lastSync.status = "ok" =>
               Len(lastSync.events) = 1 /\ lastSync.events[1].file_ids = <<>>
        /\ lastSync.status = "error" => lastSync.events = <<>>

\* A committed second application of a non-empty list to a table that its
\* first application filled.
C5_Witness ==
    /\ SecondApplication
    /\ lastSync.status = "ok"
    /\ lastSync.obs # <<>>
    /\ Len(lastSync.before) > 0

\* What C6 promises for the observation at position k of a successful call.
InsertedOnce(k) ==
    LET id == lastSync.obs[k].id IN
    /\ Cardinality(RowsOf(drive_files, id)) = 1
    /\ \A i \in RowsOf(drive_files, id) :
           /\ drive_files[i].processed = FALSE
           /\ drive_files[i].detected_at = Now(clock)
           /\ \E j \in DOMAIN lastSync.returned : lastSync.returned[j] = drive_files[i]
    /\ Len(lastSync.events) = 1
    /\ id \in Range(lastSync.events[1].file_ids)

\* C6 as stated: a successful call inserts one row for every observation
\* whose id had no row.
C6_EveryAbsentInserted ==
    lastSync.status = "ok" =>
        \A k \in DOMAIN lastSync.obs :
            RowsOf(lastSync.before, lastSync.obs[k].id) = {} => InsertedOnce(k)

\* C6 amended: a successful call inserts exactly one row (processed false,
\* detected_at set, returned, listed in the event) for every observation
\* whose id had no row and whose processing raised no error.
C6_AbsentInsertedUnlessSkipped ==
    lastSync.status = "ok" =>
        \A k \in DOMAIN lastSync.obs \ lastSync.fails :
            RowsOf(lastSync.before, lastSync.obs[k].id) = {} => InsertedOnce(k)

\* A successful call that inserted a row for an id that was absent,
\* next to an observation that was skipped.
C6_Witness ==
    /\ lastSync.status = "ok"
    /\ lastSync.fails # {}
    /\ \E k \in DOMAIN lastSync.obs \ lastSync.fails :
           RowsOf(lastSync.before, lastSync.obs[k].id) = {}

\* C7: a call whose commit succeeded sent exactly one event, and the event
\* lists the file ids of the rows the call inserted, and no other.
C7_OneEventOfInserted ==
    lastSync.status = "ok" =>
        /\ Len(lastSync.events) = 1
        /\ Len(lastSync.events[1].file_ids) = Cardinality(InsertedByLast)
        /\ Range(lastSync.events[1].file_ids) =
               {drive_files[i].file_id : i \in InsertedByLast}

\* A committed call that inserted one file and updated another.
C7_Witness ==
    /\ lastSync.status = "ok"
    /\ InsertedByLast # {}
    /\ \E i \in DOMAIN lastSync.before : drive_files[i] # lastSync.before[i]

\* An observation of the latest call staged an insert / an update.
StagedInsert ==
    \E k \in DOMAIN lastSync.obs \ lastSync.fails :
        RowsOf(lastSync.before, lastSync.obs[k].id) = {}

StagedUpdate ==
    \E k \in DOMAIN lastSync.obs \ lastSync.fails :
        \E i \in RowsOf(lastSync.before, lastSync.obs[k].id) :
            NeedsUpdate(lastSync.before[i],
                        ModifiedTimeOf(lastSync.obs[k].modifiedTime, Now(clock)))

\* C35: the table never holds two rows with the same file_id, whatever
\* the sessions do and in whatever order.
C35_OneRowPerFileId ==
    \A i, j \in DOMAIN drive_files :
        drive_files[i].file_id = drive_files[j].file_id => i = j

\* Two calls overlapped on the same new file: one committed its row and
\* the commit of the other was rejected for it.
C35_Witness ==
    \E s, t \in DbSessions :
        /\ s # t
        /\ sessions[s].outcome = "ok"
        /\ sessions[t].outcome = "overtaken"

\* The latest call got a batch that names a file id twice, the table did
\* not hold that id, and the database had no other reason to refuse.
C36_RepeatedNewId ==
    /\ lastSync.status # "none"
    /\ lastSync.commitOk
    /\ \E j, k \in DOMAIN lastSync.obs \ lastSync.fails :
           /\ j # k
           /\ lastSync.obs[j].id = lastSync.obs[k].id
           /\ RowsOf(lastSync.before, lastSync.obs[j].id) = {}

\* C36: a batch that names a new file id twice is committed, with one row
\* for every file id it names.
C36_RepeatedIdInsertsOneRow ==
    C36_RepeatedNewId =>
        /\ lastSync.status = "ok"
        /\ \A k \in DOMAIN lastSync.obs \ lastSync.fails :
               Cardinality(RowsOf(drive_files, lastSync.obs[k].id)) = 1

\* C8: when the commit fails the table is as before the call, the call
\* raises, returns nothing and sends no event.
C8_FailedCommitRollsBack ==
    /\ (lastSync.status # "none" /\ ~lastSync.commitOk) => lastSync.status = "error"
    /\ lastSync.status = "error" =>
           /\ drive_files = lastSync.before
           /\ lastSync.returned = <<>>
           /\ lastSync.events = <<>>

\* A failed commit of a batch that staged an insert and an update.
C8_Witness ==
    /\ lastSync.status = "error"
    /\ ~lastSync.commitOk
    /\ StagedInsert
    /\ StagedUpdate

\* The observations of the latest call without the ones whose processing failed.
Survivors ==
    SelectSeq([k \in DOMAIN lastSync.obs |-> [pos |-> k, o |-> lastSync.obs[k]]],
              LAMBDA x : x.pos \notin lastSync.fails)

\* C9: the call has the effect and the outcome of the same call on the
\* batch without the failing observations: the others are staged and
\* committed, and the call fails only if the commit does.
C9_FailureSkipsOnlyThatFile ==
    lastSync.status # "none" =>
        LET rest == [i \in DOMAIN Survivors |-> Survivors[i].o]
            r == sync_drive_files(lastSync.before, rest, {}, lastSync.commitOk, Now(clock))
        IN  /\ drive_files = r.db
            /\ lastSync.status = r.status
            /\ lastSync.returned = r.returned
            /\ lastSync.status = "ok" =>
                   \A k \in DOMAIN lastSync.obs \ lastSync.fails :
                       RowsOf(drive_files, lastSync.obs[k].id) # {}
            /\ lastSync.status = "error" =>
                   \/ ~lastSync.commitOk
                   \/ \E j, k \in DOMAIN lastSync.obs \ lastSync.fails :
                          j # k /\ lastSync.obs[j].id = lastSync.obs[k].id

\* A committed call in which the first observation failed and a later one
\* was inserted.
C9_Witness ==
    /\ lastSync.status = "ok"
    /\ \E f \in lastSync.fails, k \in DOMAIN lastSync.obs \ lastSync.fails :
           /\ f < k
           /\ RowsOf(lastSync.before, lastSync.obs[k].id) = {}
           /\ RowsOf(drive_files, lastSync.obs[k].id) # {}

\* The observation at position k of the latest call was processed, carries
\* a modification time, is the only one of the call for its file, and the
\* file had a row before the call.
C30_ObservedAgain(k) ==
    /\ k \notin lastSync.fails
    /\ lastSync.obs[k].modifiedTime.kind = "iso"
    /\ \A j \in DOMAIN lastSync.obs : lastSync.obs[j].id = lastSync.obs[k].id => j = k
    /\ FindRow(lastSync.before, lastSync.obs[k].id) # 0

\* C30: after a call that committed, the row of a file observed again has
\* the detection time and the processed flag it had, and is unchanged
\* altogether when the observed modification time is the stored one.
C30_UpdateOnlyOnNewerTime ==
    lastSync.status = "ok" =>
        \A k \in DOMAIN lastSync.obs :
            C30_ObservedAgain(k) =>
                LET i == FindRow(lastSync.before, lastSync.obs[k].id)
                    old == lastSync.before[i]
                    new == drive_files[i]
                IN  /\ new.detected_at = old.detected_at
                    /\ new.processed = old.processed
                    /\ lastSync.obs[k].modifiedTime.t = old.modified_time.t => new = old

\* No two observations of the latest call name the same file.
C31_DistinctIds ==
    \A j, k \in DOMAIN lastSync.obs :
        lastSync.obs[j].id = lastSync.obs[k].id => j = k

\* The observation at position k of the latest call was processed and has
\* a modification time that is missing or does not parse.
C31_NoUsableTime(k) ==
    /\ k \notin lastSync.fails
    /\ lastSync.obs[k].modifiedTime.kind \in {"missing", "garbage"}

\* C31: a call on observations of distinct files whose commit the database
\* accepts succeeds whatever the modification times look like, and the row
\* of every processed observation without a usable modification time, new
\* or stored before, carries the time of the call.
C31_BadTimeFallsBackToNow ==
    (lastSync.status # "none" /\ lastSync.commitOk /\ C31_DistinctIds) =>
        /\ lastSync.status = "ok"
        /\ \A k \in DOMAIN lastSync.obs :
               C31_NoUsableTime(k) =>
                   LET i == FindRow(drive_files, lastSync.obs[k].id) IN
                   /\ i # 0
                   /\ drive_files[i].modified_time = [t |-> Now(clock), aware |-> FALSE]
                   /\ drive_files[i].name = lastSync.obs[k].name

\* A committed call inserted one file and updated another, the first
\* without a modification time and the second with one that does not parse.
C31_Witness ==
    /\ lastSync.status = "ok"
    /\ C31_DistinctIds
    /\ \E j, k \in DOMAIN lastSync.obs :
          /\ C31_NoUsableTime(j) /\ C31_NoUsableTime(k)
          /\ lastSync.obs[j].modifiedTime.kind = "missing"
          /\ lastSync.obs[k].modifiedTime.kind = "garbage"
          /\ FindRow(lastSync.before, lastSync.obs[j].id) = 0
          /\ FindRow(lastSync.before, lastSync.obs[k].id) # 0
          /\ drive_files[FindRow(drive_files, lastSync.obs[k].id)].modified_time.t = Now(clock)

\* ------------------------------------------------------------------------
\* Folder reconciler: create_drive_folder (drive.py:219-321)
\* ------------------------------------------------------------------------

\* Attributes of the request model FolderCreate (model.py:43-45).
FolderCreateFields == {"name", "parent_folder_id"}

\* Columns of DriveFolderModel (db_model.py:15-19).
DriveFolderColumns == {"id", "name", "google_drive_folder_id", "parent_id", "created_at"}

\* Positional parameters of DriveWatcher.create_folder after self
\* (driver_watcher.py:231) and arguments of the call in the handler
\* (drive.py:295-296).
CreateFolderParams == 2
CreateFolderArgs == 3

\* The declarations the handler runs against.
Declared ==
    [fields |-> FolderCreateFields, columns |-> DriveFolderColumns,
     params |-> CreateFolderParams]

\* Declarations that carry every attribute, column and parameter the
\* handler uses.
DeclaredComplete ==
    [fields |-> FolderCreateFields \cup {"folder_type", "team_id"},
     columns |-> DriveFolderColumns \cup {"folder_type", "team_id"},
     params |-> CreateFolderArgs]

\* The response of a request that raised; `remote` and `creates` tell what
\* the handler had done in the Drive by then.  The table is rolled back
\* (lines 314-321).
FolderError(code, detail, db, remote, creates) ==
    [status |-> code, detail |-> detail, folder_id |-> 0, google_id |-> 0,
     db |-> db, remote |-> remote, creates |-> creates, lookups |-> 0]

\* _build_folder_response (lines 324-331) of the row at position id.
FolderOk(detail, id, db, remote, creates) ==
    [status |-> 200, detail |-> detail, folder_id |-> id,
     google_id |-> db[id].google_drive_folder_id,
     db |-> db, remote |-> remote, creates |-> creates, lookups |-> 0]

\* Line 267: the outcome of a request that called find_folder_by_name.
LookedUp(r) == [r EXCEPT !.lookups = 1]

\* Lines 241-265: the checks made when a parent is given.  The test for
\* root folders (line 249) sits inside the `if folder.parent_folder_id`
\* block, where its condition is never true.
ValidateParent(decl, folder, db, docs) ==
    LET pid == folder.parent_folder_id
        folder_type == IF folder.folder_type = "none" THEN "recurso"
                       ELSE folder.folder_type
    IN  IF pid = 0 THEN "ok"
        ELSE IF pid \notin DOMAIN db THEN "parent_not_found"
        ELSE IF "folder_type" \notin decl.columns THEN "AttributeError"
        ELSE IF db[pid].folder_type = "team" /\ folder_type \notin {"avances", "sesiones"}
        THEN "under_team"
        ELSE IF db[pid].folder_type = "avances" /\ folder_type # "equipo"
        THEN "under_avances"
        ELSE IF db[pid].folder_type = "sesiones" /\ folder_type # "tema"
        THEN "under_sesiones"
        ELSE IF folder.folder_type \in {"equipo", "tema"} /\ pid \in docs
        THEN "documents_exist"
        ELSE "ok"

\* Lines 280-289 and 300-309: the new DriveFolderModel, added and committed.
InsertFolder(folder, google_id, db) ==
    Append(db, [name |-> folder.name, parent_id |-> folder.parent_folder_id,
                google_drive_folder_id |-> google_id,
                team_id |-> folder.team_id, folder_type |-> folder.folder_type])

\* Lines 273-274: the first local row bound to the remote id, 0 if none.
FindLocal(db, google_id) ==
    IF \E i \in DOMAIN db : db[i].google_drive_folder_id = google_id
    THEN CHOOSE i \in DOMAIN db :
             /\ db[i].google_drive_folder_id = google_id
             /\ \A j \in DOMAIN db : db[j].google_drive_folder_id = google_id => i <= j
    ELSE 0

\* Remote ids of the Drive folders named `name`.
RemoteMatches(remote, name) == {i \in DOMAIN remote : remote[i].name = name}

\* Lines 267-312.  env.lookupOk: files().list of find_folder_by_name
\* answers (on an error the method returns None, driver_watcher.py:285-290);
\* env.first: the folder it returns, the first of the matches in the order
\* the Drive lists them, 0 if there is none; env.createOk: files().create
\* answers (on an error create_folder returns None, lines 254-259);
\* env.commitOk: db.commit() succeeds.
Reconcile(decl, folder, db, remote, env) ==
    LET existing == IF env.lookupOk THEN env.first ELSE 0 IN
    IF existing # 0
    THEN LET local == FindLocal(db, existing) IN
         IF local # 0
         THEN FolderOk("already_exists", local, db, remote, 0)
         ELSE IF ~({"team_id", "folder_type"} \subseteq decl.columns)
         THEN FolderError(500, "TypeError", db, remote, 0)
         ELSE IF ~env.commitOk
         THEN FolderError(500, "commit_failed", db, remote, 0)
         ELSE FolderOk("synced", Len(db) + 1,
                       InsertFolder(folder, existing, db), remote, 0)
    ELSE LET pid == folder.parent_folder_id
             parent == IF pid # 0 THEN db[pid].google_drive_folder_id ELSE 0
             created == Append(remote, [name |-> folder.name, parent |-> parent])
         IN  IF CreateFolderArgs > decl.params
             THEN FolderError(500, "TypeError", db, remote, 0)
             ELSE IF ~env.createOk
             THEN FolderError(500, "drive_create_failed", db, remote, 0)
             ELSE IF ~({"team_id", "folder_type"} \subseteq decl.columns)
             THEN FolderError(500, "TypeError", db, created, 1)
             ELSE IF ~env.commitOk
             THEN FolderError(500, "commit_failed", db, created, 1)
             ELSE FolderOk("created", Len(db) + 1,
                           InsertFolder(folder, Len(created), db), created, 1)

\* The handler run against the declarations decl (lines 225-321).  Reading
\* an attribute that the request model does not declare raises
\* AttributeError, which the handler turns into a 500 (lines 318-321).
Handler(decl, folder, db, docs, remote, env) ==
    LET needsTeam == folder.folder_type \in {"equipo", "tema"} IN
    IF "folder_type" \notin decl.fields
    THEN FolderError(500, "AttributeError", db, remote, 0)
    ELSE IF needsTeam /\ "team_id" \notin decl.fields
    THEN FolderError(500, "AttributeError", db, remote, 0)
    ELSE IF needsTeam /\ folder.team_id = 0
    THEN FolderError(400, "team_id_required", db, remote, 0)
    ELSE LET v == ValidateParent(decl, folder, db, docs) IN
         IF v = "AttributeError" THEN FolderError(500, v, db, remote, 0)
         ELSE IF v # "ok" THEN FolderError(400, v, db, remote, 0)
         ELSE LookedUp(Reconcile(decl, folder, db, remote, env))

\* The handler calling find_folder_by_name before it validates the request.
create_drive_folder_lookup_first(folder, db, docs, remote, env) ==
    LookedUp(Handler(Declared, folder, db, docs, remote, env))

\* The handler adding and committing the local record before it turns to
\* the Drive.
create_drive_folder_local_first(folder, db, docs, remote, env) ==
    [Handler(Declared, folder, db, docs, remote, env)
        EXCEPT !.db = InsertFolder(folder, 0, db)]

\* The handler with the request model, the table and create_folder
\* declaring what the handler uses.
create_drive_folder_mut(folder, db, docs, remote, env) ==
    Handler(DeclaredComplete, folder, db, docs, remote, env)

\* POST /drive/folders as the repository declares its parts.
create_drive_folder(folder, db, docs, remote, env) ==
    Handler(Declared, folder, db, docs, remote, env)

FolderEnvs(remote, name) ==
    {e \in [lookupOk : BOOLEAN, createOk : BOOLEAN, commitOk : BOOLEAN,
            first : 0..Len(remote)] :
        IF RemoteMatches(remote, name) = {} THEN e.first = 0
        ELSE e.first \in RemoteMatches(remote, name)}

EnsureFolder ==
    /\ nfolder < MaxFolderCalls
    /\ Len(drive_folders) < MaxFolders
    /\ \E folder \in FolderRequests :
       \E env \in FolderEnvs(remote_folders, folder.name) :
          LET r == create_drive_folder(folder, drive_folders, folder_docs,
                                       remote_folders, env)
          IN  /\ drive_folders' = r.db
              /\ remote_folders' = r.remote
              /\ remote_creates' = [remote_creates EXCEPT ![folder.name] = @ + r.creates]
              /\ lastFolder' = [status |-> r.status, detail |-> r.detail,
                                folder_id |-> r.folder_id, google_id |-> r.google_id,
                                creates |-> r.creates, lookups |-> r.lookups,
                                req |-> folder, env |-> env,
                                db_before |-> drive_folders,
                                remote_before |-> remote_folders,
                                same |-> nfolder > 0 /\ lastFolder.req = folder,
                                prevStatus |-> lastFolder.status,
                                prevFolderId |-> lastFolder.folder_id,
                                prevGoogleId |-> lastFolder.google_id,
                                prevCreates |-> lastFolder.creates]
    /\ nfolder' = nfolder + 1
    /\ UNCHANGED <<folder_docs, xF>>

FNext == EnsureFolder

SpecFolder == Init /\ [][FNext]_vars

\* Folders of the Drive that no request of this service created: made by
\* hand, or left by a request whose local write failed.
RemoteTrees == SeqsUpTo([name : FolderNames, parent : {0}], MaxRemote)

InitFolderRemote ==
    /\ WInit /\ CInit /\ SInit /\ KInit /\ GInit /\ NInit /\ OInit /\ PInit
    /\ drive_folders = <<>>
    /\ remote_folders \in RemoteTrees
    /\ remote_creates = [n \in FolderNames |-> 0]
    /\ folder_docs = {}
    /\ nfolder = 0
    /\ lastFolder = NoFolderCall

\* The reconciler started on a Drive that holds folders already.
SpecFolderRemote == InitFolderRemote /\ [][FNext]_vars

\* ------------------------------------------------------------------------
\* create_drive_folder requests in service at the same time
\* ------------------------------------------------------------------------
\* The handler is a coroutine without an await, so one event loop runs
\* its requests one after another; requests overlap when several worker
\* processes serve the route.  A request reads the table and the Drive
\* (lines 242, 267, 273) before it writes (lines 287-288, 295, 307-308):
\* what it reads is the state of some moment not later than its writes,
\* here the moment it is accepted.

\* The request is accepted and its session opened (lines 219-223).
AcceptFolder(r, folder) ==
    /\ inflight[r].pc # "running"
    /\ nfolder < MaxFolderCalls
    /\ nfolder' = nfolder + 1
    /\ inflight' = [q \in RequestSlots |->
           IF q = r
           THEN [pc |-> "running", folder |-> folder, db0 |-> drive_folders,
                 remote0 |-> remote_folders, status |-> 0, overlapped |-> FALSE]
           ELSE [inflight[q] EXCEPT !.overlapped = FALSE]]
    /\ UNCHANGED <<drive_folders, remote_folders, remote_creates, folder_docs,
                   lastFolder, xP>>

\* The handler body on what the request read; the row and the Drive
\* folder it made are added to what the table and the Drive hold by now,
\* the Drive giving the new folder the next free id.  Of an answered
\* request the slot keeps the folder name and the status.
AnswerFolder(r, env) ==
    /\ inflight[r].pc = "running"
    /\ Len(drive_folders) < MaxFolders
    /\ LET me == inflight[r]
           res == create_drive_folder(me.folder, me.db0, folder_docs, me.remote0, env)
           newRemote == SubSeq(res.remote, Len(me.remote0) + 1, Len(res.remote))
           newRows == SubSeq(res.db, Len(me.db0) + 1, Len(res.db))
           bound == [i \in DOMAIN newRows |->
                        IF res.creates = 1
                        THEN [newRows[i] EXCEPT
                                 !.google_drive_folder_id = Len(remote_folders) + 1]
                        ELSE newRows[i]]
       IN  /\ drive_folders' = drive_folders \o bound
           /\ remote_folders' = remote_folders \o newRemote
           /\ remote_creates' = [remote_creates EXCEPT ![me.folder.name] = @ + res.creates]
           /\ inflight' = [inflight EXCEPT ![r] =
                  [me EXCEPT !.pc = "done", !.db0 = <<>>, !.remote0 = <<>>,
                             !.folder = [IdleRequest.folder EXCEPT !.name = me.folder.name],
                             !.status = res.status,
                             !.overlapped = \E q \in RequestSlots \ {r} :
                                 /\ inflight[q].pc = "running"
                                 /\ inflight[q].folder.name = me.folder.name]]
    /\ UNCHANGED <<folder_docs, nfolder, lastFolder, xP>>

AcceptFolderAny == \E r \in RequestSlots, folder \in FolderRequests : AcceptFolder(r, folder)
AnswerFolderAny ==
    \E r \in RequestSlots :
    \E env \in FolderEnvs(inflight[r].remote0, inflight[r].folder.name) :
        AnswerFolder(r, env)

PNext == AcceptFolderAny \/ AnswerFolderAny

SpecFolderOverlap == InitFolderRemote /\ [][PNext]_vars

C3_SameRecordTwice ==
    lastFolder.same =>
        /\ lastFolder.status = 200
        /\ lastFolder.prevStatus = 200
        /\ lastFolder.folder_id = lastFolder.prevFolderId
        /\ lastFolder.google_id = lastFolder.prevGoogleId
        /\ lastFolder.creates + lastFolder.prevCreates <= 1

Bodies == {"missing", "empty", "full"}

\* A deserialised message.  file_id -1: the key is missing; 0: it holds the
\* empty string; otherwise a Drive file id.
Events == [file_id : -1..NumSyncFiles, analysis_results : Bodies]

\* Columns of EvaluationCriteriaModel (db_model.py:118-132).
EvaluationCriteriaColumns ==
    {"id", "score_interview", "positives_json", "improvements_json",
     "recommendations_json", "criteria_evaluation_clarity_id",
     "criteria_evaluation_audience_id", "criteria_evaluation_structure_id",
     "criteria_evaluation_depth_id", "criteria_evaluation_questions_id"}

\* Keyword arguments of the constructor call at lines 221-228.
CriteriaKwargs ==
    {"criteria_evaluation_id", "criteria_type", "score_interview",
     "positives_json", "improvements_json", "recommendations_json"}

\* Rows added by one complete unit: the result, the evaluation, five
\* criteria, the critical evaluation, the details and the mentor report
\* (lines 199-274).
UnitRows == 10

\* The test of line 184 dropped: every message is taken as complete.
IncompleteMut(event) == FALSE

\* Line 184: `not file_id_drive or not analysis_results`.
Incomplete(event) ==
    event.file_id <= 0 \/ event.analysis_results \in {"missing", "empty"}

IngestResult(outcome, writes, results) ==
    [outcome |-> outcome, writes |-> writes, results |-> results]

\* Table analysis_results with the n rows of a unit that the attempt for
\* db_file has flushed so far.
Flushed(results, db_file, n) == Append(results, [file_id |-> db_file, rows |-> n])

\* The rollback of line 280 left out: what the attempt flushed stays.
AfterIngestFailureMut(results, flushed) == flushed

\* Lines 279-282: db.rollback() discards what the attempt flushed.
AfterIngestFailure(results, flushed) == results

\* The test of line 194 dropped: the lookup is taken to have found a row.
NotFoundMut(db_file) == FALSE

\* Line 194: `not db_file`, the lookup of line 193 returned None.
NotFound(db_file) == db_file = 0

\* file_id of analysis_results is declared unique (db_model.py:73): the
\* INSERT flushed at line 202 raises IntegrityError when the file has a
\* result already.
HasResult(results, db_file) ==
    \E i \in DOMAIN results : results[i].file_id = db_file

\* Lines 177-286, run with the constructor of lines 221-228 given the
\* keyword arguments kwargs and with the unique constraint on or off.
\* files: table drive_files; results: table analysis_results; commitOk:
\* db.commit() of line 277 succeeds.  Every exception after the lookup ends
\* in rollback and KafkaError (lines 279-286).
IngestWith(kwargs, unique, event, files, results, commitOk) ==
    LET db_file == FindRow(files, event.file_id) IN
    IF Incomplete(event) THEN IngestResult("dropped", 0, results)
    ELSE IF NotFound(db_file) THEN IngestResult("no_file", 0, results)
    ELSE IF unique /\ HasResult(results, db_file)
    THEN IngestResult("raised", 1, AfterIngestFailure(results, results))
    ELSE IF event.analysis_results = "missing"
    THEN IngestResult("raised", 1,
                      AfterIngestFailure(results, Flushed(results, db_file, 1)))
    ELSE IF ~(kwargs \subseteq EvaluationCriteriaColumns)
    THEN IngestResult("raised", 2,
                      AfterIngestFailure(results, Flushed(results, db_file, 2)))
    ELSE IF ~commitOk
    THEN IngestResult("raised", UnitRows,
                      AfterIngestFailure(results, Flushed(results, db_file, UnitRows)))
    ELSE IngestResult("saved", UnitRows,
                      Append(results, [file_id |-> db_file, rows |-> UnitRows]))

\* The method with the criteria built from declared columns only and with
\* no unique constraint on the file of a result.
process_analysis_event_dup(event, files, results, commitOk) ==
    IngestWith(CriteriaKwargs \cap EvaluationCriteriaColumns, FALSE,
               event, files, results, commitOk)

\* process_analysis_event as the repository declares its models.
process_analysis_event(event, files, results, commitOk) ==
    IngestWith(CriteriaKwargs, TRUE, event, files, results, commitOk)

\* A producer appends a message to the topic.
Produce ==
    /\ Len(kafka_log) < MaxMsgs
    /\ \E event \in Events : kafka_log' = Append(kafka_log, event)
    /\ delivered' = Append(delivered, 0)
    /\ msg_writes' = Append(msg_writes, 0)
    /\ msg_outcome' = Append(msg_outcome, "none")
    /\ UNCHANGED <<position, committed, analysis_results, nrestarts, restartedAt,
                   lastIngest, drive_files, clock, nsync, lastSync, xK>>

\* One turn of the loop of start (lines 40-47): the next message is
\* processed and, unless that raised, the position is committed.
Consume ==
    /\ position <= Len(kafka_log)
    /\ \E commitOk \in BOOLEAN :
          LET r == process_analysis_event(kafka_log[position], drive_files,
                                          analysis_results, commitOk)
          IN  /\ analysis_results' = r.results
              /\ committed' = IF r.outcome = "raised" THEN committed ELSE position + 1
              /\ msg_writes' = [msg_writes EXCEPT ![position] = @ + r.writes]
              /\ msg_outcome' = [msg_outcome EXCEPT ![position] = r.outcome]
              /\ lastIngest' = [offset |-> position, outcome |-> r.outcome,
                                writes |-> r.writes, before |-> analysis_results,
                                commitOk |-> commitOk]
    /\ delivered' = [delivered EXCEPT ![position] = @ + 1]
    /\ position' = position + 1
    /\ UNCHANGED <<kafka_log, nrestarts, restartedAt,
                   drive_files, clock, nsync, lastSync, xK>>

\* The process stops (main.py:72-88, or a crash) and is started again: the
\* new consumer resumes from the committed offset.
Restart ==
    /\ nrestarts < MaxRestarts
    /\ nrestarts' = nrestarts + 1
    /\ restartedAt' = position
    /\ position' = committed
    /\ UNCHANGED <<kafka_log, committed, delivered, msg_writes, msg_outcome,
                   analysis_results,
                   lastIngest, drive_files, clock, nsync, lastSync, xK>>

\* Tables drive_files left by one synchronisation of an empty table.
SyncedTables ==
    {sync_drive_files(<<>>, obs, {}, TRUE, Now(1)).db :
        obs \in {o \in ObsLists :
                    \A i \in DOMAIN o : o[i].name = 1 /\ o[i].modifiedTime.kind = "missing"}}

InitConsumer ==
    /\ WInit /\ CInit /\ FInit /\ KInit /\ GInit /\ NInit /\ OInit /\ PInit
    /\ drive_files \in SyncedTables
    /\ clock = 1
    /\ nsync = 0
    /\ lastSync = NoSync

KNext == Produce \/ Consume \/ Restart

SpecConsumer == InitConsumer /\ [][KNext]_vars

\* ------------------------------------------------------------------------
\* Shutdown of the consumer task (main.py:72-88) while start() runs
\* (analysis_save_consumer.py:31-58)
\* ------------------------------------------------------------------------

\* The task of start() is suspended at one of two awaits of the loop: in
\* `async for message in self.consumer` (line 40, "fetch") or in
\* `await self.consumer.commit()` (line 44, "commit").
\* process_analysis_event has no await in its body (its database calls are
\* synchronous), so the task is never suspended inside it.

\* Lines 40-43 and 45-47: the next message is fetched and processed; when
\* that raised the loop continues with the next message, otherwise the
\* task goes on to commit.
FetchAndProcess ==
    /\ task_pc = "fetch"
    /\ position <= Len(kafka_log)
    /\ \E commitOk \in BOOLEAN :
          LET r == process_analysis_event(kafka_log[position], drive_files,
                                          analysis_results, commitOk)
          IN  /\ analysis_results' = r.results
              /\ msg_writes' = [msg_writes EXCEPT ![position] = @ + r.writes]
              /\ msg_outcome' = [msg_outcome EXCEPT ![position] = r.outcome]
              /\ lastIngest' = [offset |-> position, outcome |-> r.outcome,
                                writes |-> r.writes, before |-> analysis_results,
                                commitOk |-> commitOk]
              /\ task_pc' = IF r.outcome = "raised" THEN "fetch" ELSE "commit"
    /\ delivered' = [delivered EXCEPT ![position] = @ + 1]
    /\ position' = position + 1
    /\ UNCHANGED <<kafka_log, committed, nrestarts, restartedAt, cancelled_in,
                   drive_files, clock, nsync, lastSync, xH>>

\* Line 44: commit() returns, the position is committed.
CommitOffset ==
    /\ task_pc = "commit"
    /\ committed' = position
    /\ task_pc' = "fetch"
    /\ UNCHANGED <<kafka_log, position, delivered, msg_writes, msg_outcome,
                   analysis_results, nrestarts, restartedAt, lastIngest,
                   cancelled_in, drive_files, clock, nsync, lastSync, xH>>

\* main.py:84-86: task.cancel() throws CancelledError into the task at the
\* await where it is suspended, whichever that is.
Cancellable(await) == await \in {"fetch", "commit"}

\* main.py:84-88.  CancelledError is not an Exception, so neither
\* `except Exception` of lines 45 and 49 catches it; it leaves the loop
\* through `finally` (lines 57-58), where consumer.stop() commits nothing
\* (enable_auto_commit=False, line 27).  A commit request interrupted at
\* its await may or may not have reached the broker.
shutdown_event ==
    /\ Cancellable(task_pc)
    /\ cancelled_in' = task_pc
    /\ task_pc' = "stopped"
    /\ IF task_pc = "commit"
       THEN committed' \in {committed, position}
       ELSE UNCHANGED committed
    /\ UNCHANGED <<kafka_log, position, delivered, msg_writes, msg_outcome,
                   analysis_results, nrestarts, restartedAt, lastIngest,
                   drive_files, clock, nsync, lastSync, xH>>

\* main.py:53-54 in the next process: a new consumer of the group resumes
\* from the committed offset.
startup_event ==
    /\ task_pc = "stopped"
    /\ nrestarts < MaxRestarts
    /\ nrestarts' = nrestarts + 1
    /\ restartedAt' = position
    /\ position' = committed
    /\ task_pc' = "fetch"
    /\ UNCHANGED <<kafka_log, committed, delivered, msg_writes, msg_outcome,
                   analysis_results, lastIngest, cancelled_in,
                   drive_files, clock, nsync, lastSync, xH>>

HNext == Produce \/ FetchAndProcess \/ CommitOffset \/ shutdown_event \/ startup_event

SpecShutdown == InitConsumer /\ [][HNext]_vars

\* C26: when the consumer has been stopped by a shutdown, every message
\* whose processing ended without an error is acknowledged: no unit was
\* cut between its processing and its commit.
C26_ShutdownFinishesUnit ==
    task_pc = "stopped" =>
        /\ cancelled_in = "fetch"
        /\ \A o \in DOMAIN kafka_log :
               msg_outcome[o] \in {"dropped", "no_file", "saved"} => committed > o

LacksFileId(m) == m.file_id = -1 \/ m.file_id = 0

LacksBody(m) == m.analysis_results # "full"

C11_FailedIngestRolledBack ==
    /\ lastIngest.outcome = "raised" => analysis_results = lastIngest.before
    /\ \A i \in DOMAIN analysis_results : analysis_results[i].rows = UnitRows

\* An ingest failed after it had flushed the result and the evaluation.
C11_Witness ==
    /\ lastIngest.outcome = "raised"
    /\ lastIngest.writes >= 2
    /\ analysis_results = lastIngest.before

\* C12: the committed offset is never beyond a message whose latest
\* ingestion failed.
C12_NoCommitPastFailure ==
    \A o \in DOMAIN kafka_log : msg_outcome[o] = "raised" => committed <= o

C23_UnknownFile(m) == ~Incomplete(m) /\ FindRow(drive_files, m.file_id) = 0

C24_UnitSaved ==
    LET m == kafka_log[lastIngest.offset]
        db_file == FindRow(drive_files, m.file_id)
    IN  (/\ lastIngest.offset > 0
         /\ ~Incomplete(m)
         /\ db_file # 0
         /\ ~HasResult(lastIngest.before, db_file)
         /\ lastIngest.commitOk) =>
            /\ lastIngest.outcome = "saved"
            /\ analysis_results =
                   Append(lastIngest.before, [file_id |-> db_file, rows |-> UnitRows])
            /\ committed > lastIngest.offset

\* ------------------------------------------------------------------------
\* Incremental changes: DriveWatcher.get_incremental_changes
\* (driver_watcher.py:194-229) behind GET /drive/files/changes
\* (drive.py:163-181)
\* ------------------------------------------------------------------------

\* A page token is the position in the change log of the next change to
\* list; the tokens start at 1.

\* changes().getStartPageToken(): the token for the changes yet to come.
StartPageToken(n) == n + 1

\* changes().list(pageToken = token) on a log of n changes: one page, with
\* nextPageToken when more changes are left and newStartPageToken on the
\* last page.  An absent token is 0.
ChangesList(token, n) ==
    LET last == IF token + PageSize - 1 < n THEN token + PageSize - 1 ELSE n IN
    [changes |-> [i \in 1..(last + 1 - token) |-> token + i - 1],
     nextPageToken |-> IF last < n THEN last + 1 ELSE 0,
     newStartPageToken |-> IF last < n THEN 0 ELSE n + 1]

\* new_token following the nextPageToken of the response instead: the call
\* returns the token of the last page it asked for.
NewTokenNextPage(response, token) ==
    IF response.nextPageToken # 0 THEN response.nextPageToken ELSE token

\* The new start token of the response is ignored.
NewTokenMut(response, token) == token

\* Lines 218-219: new_token follows the newStartPageToken of the response.
NewToken(response, token) ==
    IF response.newStartPageToken # 0 THEN response.newStartPageToken ELSE token

\* The Drive records a change.
DriveChange ==
    /\ nchanges < MaxChanges
    /\ nchanges' = nchanges + 1
    /\ UNCHANGED <<saved_token, chg_pc, page_token, new_token, changes,
                   change_batches, nchangecalls, lastChanges, xG>>

\* Lines 200-209: the call starts from the caller's token, or from the
\* start token of the Drive when the caller has none.
StartChanges ==
    /\ chg_pc = "idle"
    /\ nchangecalls < MaxChangeCalls
    /\ nchangecalls' = nchangecalls + 1
    /\ LET saved_page_token == IF saved_token = 0 THEN StartPageToken(nchanges)
                               ELSE saved_token
       IN  /\ page_token' = saved_page_token
           /\ new_token' = saved_page_token
    /\ changes' = <<>>
    /\ chg_pc' = "listing"
    /\ UNCHANGED <<nchanges, saved_token, change_batches, lastChanges, xG>>

\* Lines 210-225 and drive.py:175-177: one turn of the loop; after the last
\* page the call returns the changes and new_token, which the caller saves.
ListPage ==
    /\ chg_pc = "listing"
    /\ LET response == ChangesList(page_token, nchanges)
           all == changes \o response.changes
           token == NewToken(response, new_token)
       IN  IF response.nextPageToken # 0
           THEN /\ changes' = all
                /\ new_token' = token
                /\ page_token' = response.nextPageToken
                /\ UNCHANGED <<chg_pc, saved_token, change_batches, lastChanges>>
           ELSE /\ change_batches' = Append(change_batches, all)
                /\ saved_token' = token
                /\ chg_pc' = "idle"
                /\ changes' = <<>>
                /\ new_token' = 0
                /\ page_token' = 0
                /\ lastChanges' =
                       [response |-> [status |-> 200, changes |-> all,
                                      new_token |-> token],
                        failed |-> FALSE, read |-> Len(all),
                        token_before |-> saved_token,
                        batches_before |-> Len(change_batches),
                        log |-> nchanges]
    /\ UNCHANGED <<nchanges, nchangecalls, xG>>

\* The call returning what it has read so far when a request fails.
ChangesErrorMut(read, token) ==
    [status |-> 200, changes |-> read, new_token |-> token]

\* Lines 227-229 and drive.py:178-181: the exception leaves the method, the
\* locals `changes` and `new_token` are lost, and the endpoint answers 500
\* with the error text.
ChangesError(read, token) ==
    [status |-> 500, changes |-> <<>>, new_token |-> 0]

\* Line 202: getStartPageToken fails in a call made without a token.
StartChangesError ==
    /\ chg_pc = "idle"
    /\ saved_token = 0
    /\ nchangecalls < MaxChangeCalls
    /\ nchangecalls' = nchangecalls + 1
    /\ lastChanges' = [response |-> ChangesError(<<>>, 0), failed |-> TRUE,
                       read |-> 0, token_before |-> saved_token,
                       batches_before |-> Len(change_batches), log |-> nchanges]
    /\ UNCHANGED <<nchanges, saved_token, chg_pc, page_token, new_token, changes,
                   change_batches, xG>>

\* Lines 211-215: changes().list fails, on the first page or on a later
\* one; the call raises and the caller keeps its token.
ListPageError ==
    /\ chg_pc = "listing"
    /\ chg_pc' = "idle"
    /\ changes' = <<>>
    /\ new_token' = 0
    /\ page_token' = 0
    /\ lastChanges' = [response |-> ChangesError(changes, new_token),
                       failed |-> TRUE, read |-> Len(changes),
                       token_before |-> saved_token,
                       batches_before |-> Len(change_batches), log |-> nchanges]
    /\ UNCHANGED <<nchanges, saved_token, change_batches, nchangecalls, xG>>

GNext == DriveChange \/ StartChanges \/ StartChangesError \/ ListPage \/ ListPageError

SpecChanges == Init /\ [][GNext]_vars

\* C13: in a run that starts without a token and then passes on the token
\* of the previous call, no change is in the lists of two calls.
C13_NoChangeReturnedTwice ==
    \A i, j \in DOMAIN change_batches :
        i # j => Range(change_batches[i]) \cap Range(change_batches[j]) = {}

\* Two calls after the first each returned changes, one of them over more
\* than one page.
C13_Witness ==
    /\ Len(change_batches) >= 3
    /\ change_batches[2] # <<>>
    /\ change_batches[3] # <<>>
    /\ \E i \in DOMAIN change_batches : Len(change_batches[i]) > PageSize

\* C25: a call in which a request to the Drive failed is answered with an
\* error that carries no change and no token; the caller's token and the
\* lists returned so far are as before the call.
C25_FailedCallReturnsNothing ==
    lastChanges.failed =>
        /\ lastChanges.response.status = 500
        /\ lastChanges.response.changes = <<>>
        /\ lastChanges.response.new_token = 0
        /\ chg_pc = "idle" =>
               /\ saved_token = lastChanges.token_before
               /\ Len(change_batches) = lastChanges.batches_before

\* A call failed after it had read a full page of changes.
C25_Witness ==
    /\ lastChanges.failed
    /\ lastChanges.read >= PageSize
    /\ lastChanges.response.status = 500
    /\ lastChanges.response.changes = <<>>
    /\ chg_pc = "idle"

\* C32: a call made with a token that ended without an error read on to
\* the end of the change log as it stood at its last page; it returns every
\* change from the caller's token to that end, in order, and the token the
\* Drive reported on that page, which stands behind the last change.
C32_PagesToTheEnd ==
    (/\ lastChanges.response.status = 200
     /\ lastChanges.token_before # 0) =>
        /\ lastChanges.response.new_token = lastChanges.log + 1
        /\ lastChanges.response.changes =
               [i \in 1..(lastChanges.log + 1 - lastChanges.token_before) |->
                    lastChanges.token_before + i - 1]

\* A call made with a token returned changes it had read over more than
\* one page.
C32_Witness ==
    /\ lastChanges.response.status = 200
    /\ lastChanges.token_before # 0
    /\ lastChanges.read > PageSize
    /\ lastChanges.response.new_token = lastChanges.log + 1

\* The latest request left the table and the Drive as they were.
C14_NothingCreated ==
    /\ drive_folders = lastFolder.db_before
    /\ remote_folders = lastFolder.remote_before
    /\ lastFolder.creates = 0

\* C14: a request without a parent and with a type other than 'team' is
\* answered with a validation error (status 400), and neither a Drive
\* folder nor a local record is created.
C14_RootNonTeamRejected ==
    (/\ nfolder > 0
     /\ lastFolder.req.parent_folder_id = 0
     /\ lastFolder.req.folder_type # "team") =>
        lastFolder.status = 400 /\ C14_NothingCreated

\* A table as C15 and C16 describe it: folder 1 is a root folder of the
\* given type, bound to Drive folder 1.
C15_StoreWithParent(type) ==
    <<[name |-> 1, parent_id |-> 0, google_drive_folder_id |-> 1,
       team_id |-> 1, folder_type |-> type]>>

\* The Drive that goes with it.
C15_DriveWithParent == <<[name |-> 1, parent |-> 0]>>

\* The handler rejects the request with a validation error and leaves the
\* table and the Drive alone.
C15_Rejected(folder, db, docs, remote, env) ==
    LET r == create_drive_folder(folder, db, docs, remote, env) IN
    r.status = 400 /\ r.db = db /\ r.remote = remote /\ r.creates = 0

\* C15: the handler, given the latest request and a table in which its
\* parent, folder 1, is of type 'team', answers a request whose type is
\* neither 'avances' nor 'sesiones' with a validation error, and nothing is
\* created.
C15_UnderTeamRejected ==
    (/\ nfolder > 0
     /\ lastFolder.req.parent_folder_id = 1
     /\ lastFolder.req.folder_type \notin {"avances", "sesiones"}) =>
        \A env \in FolderEnvs(C15_DriveWithParent, lastFolder.req.name) :
            C15_Rejected(lastFolder.req, C15_StoreWithParent("team"), {},
                         C15_DriveWithParent, env)

\* C16: the handler, given the latest request and a table in which its
\* parent, folder 1, is of a leaf type and has a document attached, rejects
\* the request, whatever type it asks for.
C16_UnderLeafWithDocsRejected ==
    (nfolder > 0 /\ lastFolder.req.parent_folder_id = 1) =>
        \A leaf \in {"equipo", "tema"} :
        \A env \in FolderEnvs(C15_DriveWithParent, lastFolder.req.name) :
            C15_Rejected(lastFolder.req, C15_StoreWithParent(leaf), {1},
                         C15_DriveWithParent, env)

\* The request breaks a rule that the handler validates: its type needs a
\* team identity and it has none, or its parent is not in the table.
C17_BreaksRule(folder, db) ==
    \/ folder.folder_type \in {"equipo", "tema"} /\ folder.team_id = 0
    \/ folder.parent_folder_id # 0 /\ folder.parent_folder_id \notin DOMAIN db

RECURSIVE C22_Reaches(_, _, _)
C22_Reaches(i, j, n) ==
    LET p == drive_folders[i].parent_id IN
    IF n = 0 \/ p \notin DOMAIN drive_folders THEN FALSE
    ELSE p = j \/ C22_Reaches(p, j, n - 1)

\* The child types the hierarchy allows under a parent of the given type.
C22_ChildTypes(type) ==
    CASE type = "team" -> {"avances", "sesiones"}
      [] type = "avances" -> {"equipo"}
      [] type = "sesiones" -> {"tema"}
      [] OTHER -> FolderTypes

C27_HealsLocalRecord ==
    (/\ nfolder > 0
     /\ lastFolder.req.parent_folder_id = 0
     /\ lastFolder.req.folder_type = "team"
     /\ lastFolder.env.lookupOk /\ lastFolder.env.commitOk
     /\ lastFolder.env.first # 0
     /\ FindLocal(lastFolder.db_before, lastFolder.env.first) = 0) =>
        /\ lastFolder.status = 200
        /\ Len(drive_folders) = Len(lastFolder.db_before) + 1
        /\ drive_folders[Len(drive_folders)].google_drive_folder_id = lastFolder.env.first
        /\ lastFolder.creates = 0
        /\ remote_folders = lastFolder.remote_before

\* The earliest rule of the order team identity, parent found, structure
\* that the request breaks against table db: "ok" if it breaks none.
C28_EarliestViolated(folder, db) ==
    IF folder.folder_type \in {"equipo", "tema"} /\ folder.team_id = 0
    THEN "team_id_required"
    ELSE IF folder.parent_folder_id # 0 /\ folder.parent_folder_id \notin DOMAIN db
    THEN "parent_not_found"
    ELSE IF folder.parent_folder_id = 0 /\ folder.folder_type # "team"
    THEN "root_not_team"
    ELSE "ok"

\* C28: a request that breaks a rule is answered with a validation error
\* (status 400) whose kind is that of the earliest rule it breaks.
C28_EarliestRuleReported ==
    (nfolder > 0
     /\ C28_EarliestViolated(lastFolder.req, lastFolder.db_before) # "ok") =>
        /\ lastFolder.status = 400
        /\ lastFolder.detail = C28_EarliestViolated(lastFolder.req, lastFolder.db_before)

\* The one type allowed under a second-level parent.
C29_Allowed(parent_type) == IF parent_type = "avances" THEN "equipo" ELSE "tema"

\* C29: the handler, given the latest request and a table in which its
\* parent, folder 1, is of type 'avances' or 'sesiones', accepts the request
\* only when it asks for the one type allowed under that parent, and
\* rejects every other type with a validation error, creating nothing.
C29_SecondLevelChildTypes ==
    (nfolder > 0 /\ lastFolder.req.parent_folder_id = 1) =>
        \A parent_type \in {"avances", "sesiones"} :
        \A env \in FolderEnvs(C15_DriveWithParent, lastFolder.req.name) :
            LET r == create_drive_folder(lastFolder.req, C15_StoreWithParent(parent_type),
                                         {}, C15_DriveWithParent, env)
            IN  /\ r.status = 200 => lastFolder.req.folder_type = C29_Allowed(parent_type)
                /\ lastFolder.req.folder_type # C29_Allowed(parent_type) =>
                       C15_Rejected(lastFolder.req, C15_StoreWithParent(parent_type),
                                    {}, C15_DriveWithParent, env)

\* C33: a call whose listing failed ends in an error and leaves the cache
\* as it was, until a reset; a successful call that follows it in the same
\* reset cycle starts from the cache the failed call started from, and
\* returns every listed file that was not in it.
C33_ListingErrorKeepsCache ==
    /\ (ncalls >= 1 /\ lastCall.status = "error") =>
           /\ processed_files = lastCall.before
           /\ lastCall.new_files = <<>>
    /\ (ncalls >= 2 /\ lastCall.status = "ok" /\ lastCall.prevStatus = "error") =>
           /\ lastCall.before = lastCall.prevBefore
           /\ Range(lastCall.new_files) = Range(lastCall.listing) \ lastCall.prevBefore

\* A listing failed while the cache held an id, and the successful call
\* after it returned a file that was not in the cache.
C33_Witness ==
    /\ ncalls >= 2
    /\ lastCall.status = "ok"
    /\ lastCall.prevStatus = "error"
    /\ lastCall.prevBefore # {}
    /\ lastCall.new_files # <<>>
    /\ lastCall.before = lastCall.prevBefore

\* C34: every id in the cache has been sent to a caller in a response of
\* GET /files/new.
C34_CachedIdsReachedACaller == processed_files \subseteq reported

\* C19: once the reset has run the cache is empty, and the first call after
\* it returns every file of its listing as new.
C19_ResetReportsAgain ==
    /\ (nresets > 0 /\ ncalls = 0) => processed_files = {}
    /\ (nresets > 0 /\ ncalls = 1 /\ lastCall.status = "ok") =>
           lastCall.new_files = lastCall.listing

\* The first call after a reset returned a file that had been returned
\* before the reset.
C19_Witness ==
    /\ nresets > 0
    /\ ncalls = 1
    /\ lastCall.status = "ok"
    /\ Range(lastCall.new_files) \cap emitted_before # {}
    /\ lastCall.new_files = lastCall.listing

\* ------------------------------------------------------------------------
\* Push notifications: drive_notifications (drive.py:125-160)
\* ------------------------------------------------------------------------

\* Values of the header X-Goog-Resource-State; "missing": no such header.
ResourceStates == {"missing", "sync", "add", "update", "trash", "other"}

\* The endpoint waiting for the observation and answering 500 when the
\* listing fails.
NotificationStatusMut(resource_state, channel, listing_ok) ==
    IF listing_ok THEN 200 ELSE 500

\* Lines 145-160: the headers are read and printed, the task is added and
\* the fixed body is returned; add_task does not run the task.
NotificationStatus(resource_state, channel, listing_ok) == 200

\* POST /drive/notifications.  listing_ok: whether a listing of the folder
\* would succeed at the moment of the request.
drive_notifications ==
    /\ nnotif < MaxNotifs
    /\ nnotif' = nnotif + 1
    /\ \E resource_state \in ResourceStates, channel \in BOOLEAN, listing_ok \in BOOLEAN :
          lastNotify' = [status |-> NotificationStatus(resource_state, channel, listing_ok),
                         resource_state |-> resource_state, channel |-> channel,
                         listing_ok |-> listing_ok, ncalls |-> ncalls]
    /\ notif_tasks' = Append(notif_tasks, "check_for_new_files")
    /\ UNCHANGED <<tasks_done, wvars, emitted_before, xN>>

\* The background task runs after the response: check_for_new_files with
\* the listing succeeding (driver_watcher.py:108-125).
RunTask ==
    /\ notif_tasks # <<>>
    /\ ncalls < MaxCalls
    /\ \E listing \in Listings :
          LET r == ScanFiles(listing, processed_files, <<>>) IN
          /\ processed_files' = r.processed_files
          /\ batches' = Append(batches, r.new_files)
          /\ lastCall' = [via |-> "push", status |-> "ok", listing |-> listing,
                          new_files |-> r.new_files, before |-> processed_files,
                    prevStatus |-> lastCall.status, prevBefore |-> lastCall.before]
    /\ ncalls' = ncalls + 1
    /\ notif_tasks' = Tail(notif_tasks)
    /\ tasks_done' = tasks_done + 1
    /\ UNCHANGED <<nresets, nnotif, lastNotify, emitted_before, xN>>

\* The background task runs and list_files raises: the error ends the
\* task, after the response.
RunTaskError ==
    /\ notif_tasks # <<>>
    /\ ncalls < MaxCalls
    /\ lastCall' = [via |-> "push", status |-> "error", listing |-> <<>>,
                    new_files |-> <<>>, before |-> processed_files,
                    prevStatus |-> lastCall.status, prevBefore |-> lastCall.before]
    /\ ncalls' = ncalls + 1
    /\ notif_tasks' = Tail(notif_tasks)
    /\ tasks_done' = tasks_done + 1
    /\ UNCHANGED <<processed_files, batches, nresets, nnotif, lastNotify,
                   emitted_before, xN>>

NNext == drive_notifications \/ RunTask \/ RunTaskError

SpecNotify == Init /\ [][NNext]_vars

\* C20: every notification is answered with success, whatever its headers
\* and whether or not the folder can be listed, and its observation is a
\* task that runs after the response: each notification has one task that
\* is either pending or done.
C20_NotificationAlwaysAccepted ==
    /\ nnotif > 0 => lastNotify.status = 200
    /\ Len(notif_tasks) + tasks_done = nnotif

\* A notification without a resource state arrived while the folder could
\* not be listed; it was answered, and its observation then failed.
C20_Witness ==
    /\ nnotif > 0
    /\ lastNotify.resource_state = "missing"
    /\ ~lastNotify.listing_ok
    /\ lastNotify.status = 200
    /\ notif_tasks = <<>>
    /\ lastCall.status = "error"

====
